---- MODULE Spec2Model ----
(***************************************************************************)
(* WhisperHallu-Litserve: the transcription pipeline of transcribeHallu.py *)
(* (transcribeOpts, transcribeMARK, transcribe_with_gladia), the response  *)
(* normalisation of json_util.py and the request handling of               *)
(* whisperhallu_server.py, as state machines.                              *)
(*                                                                         *)
(* Three specifications share the module:                                  *)
(*   Spec        concurrent calls of transcribeMARK on the global lock     *)
(*   SpecGladia  one call of transcribe_with_gladia                        *)
(*   SpecOpts    one request: decode_request, predict, transcribeOpts      *)
(***************************************************************************)
EXTENDS Integers, Sequences, FiniteSets, TLC

\* ------------------------------------------------------------------ bounds
NumRequests == 2
MaxWeird == 5
MaxWords == 6
MaxRuns == 3

Requests == 1..NumRequests

\* ------------------------------------------------------- program constants
MAX_DURATION == 600
MarkDurationLimit == 30
weird_word_count_threshold == 2
max_wait_time == 300
min_part_words == 3

\* ------------------------------------------------------------------- state
VARIABLES
  \* process-wide (transcribeHallu.py globals)
  whisperFound,   \* backend selected at import time: "FSTR", "STD" or "SM4T"
  lock,           \* threading.Lock: TRUE when locked
  lockBy,         \* the request whose acquire locked the lock, 0 when unlocked
  \* one transcribeMARK call chain per request
  mpc,            \* position of the request inside transcribeMARK
  mode,           \* marker mode of the current call
  mIsMusic,       \* isMusic argument of the current call
  mLng,           \* opts["language"]
  mPath,          \* path argument of the current call
  mPathIn,        \* pathIn local of the current call
  aLast,          \* aLast argument of the current call
  text,           \* result["text"] as a sequence of tokens
  weird,          \* number of denylisted phrases in result["srt"]
  mExc,           \* exception leaving transcribeMARK, "none" when none
  backendRaised,  \* the backend raised during the current top-level call
  calls,          \* backend inference calls made by the current top-level call
  mTop,           \* mode argument of the current top-level call
  mLog,           \* mode of each backend call of the top-level call, in order
  files           \* temporary files on disk, per request

markVars == <<whisperFound, lock, lockBy, mpc, mode, mIsMusic, mLng, mPath, mPathIn,
              aLast, text, weird, mExc, backendRaised, calls, mTop, mLog, files>>

VARIABLES
  gPc,            \* position inside transcribe_with_gladia
  gApiKey,        \* GLADIA_API_KEY is set
  gLog,           \* requests issued and waits slept, in order
  gUploadStatus,  \* status code of the upload response, 0 before it
  gSubmitStatus,  \* status code of the submit response, 0 before it
  gTotal,         \* total_wait_time
  gFibA,          \* the generator's a
  gFibB,          \* the generator's b
  gLastWait,      \* wait_time of the latest wait, 0 before the first
  gBody,          \* the "result" object of the done response, NoBody before it
  gResult,        \* the value returned, NoResult before the return
  gExc            \* exception leaving the function, "none" when none

gladiaVars == <<gPc, gApiKey, gLog, gUploadStatus, gSubmitStatus, gTotal, gFibA,
                gFibB, gLastWait, gBody, gResult, gExc>>

VARIABLES
  oPc,            \* position of the request in decode_request / transcribeOpts
  oIsMusic,       \* isMusic argument
  oAddSRT,        \* addSRT argument
  oOnlySRT,       \* onlySRT argument
  oLngInput,      \* lngInput argument
  oRemix,         \* remixFactor: "ge1" (>= 1), "le0" (<= 0) or "mid"
  pathIn,         \* transcribeOpts locals, paths as sequences of suffixes
  pathClean,
  pathNoCut,
  pathDemucsVocals,
  pathREMIXN,
  duration,       \* the duration local: a number or None
  oProbed,        \* what getDuration gave at line 290: a number, None, "raised"
  oGuardReached,  \* line 402 was reached
  oCounts,        \* weird-word counts of the SRT attempts, in order
  oSel,           \* index in oCounts of the attempt resultSRT holds, 0 if none
  oText,          \* result["text"] after the guard loop
  oResult,        \* the value transcribeOpts returns, NoResult before
  oExc            \* exception leaving the request, "none" when none

optsVars == <<oPc, oIsMusic, oAddSRT, oOnlySRT, oLngInput, oRemix, pathIn,
              pathClean, pathNoCut, pathDemucsVocals, pathREMIXN, duration,
              oProbed, oGuardReached, oCounts, oSel, oText, oResult, oExc>>

VARIABLES
  \* one call of split_transcription (json_util.py)
  jPc,            \* "ready" before the call, "done" after it
  jIn,            \* input_data: the segments given
  jParts,         \* for each input segment, the segments it put in the output
  jOut,           \* the list returned
  \* the run loop of one backend call of transcribeMARK
  rPc,            \* "off", "loop" inside for r in range(nbRun), "done" after it
  nbRun,          \* nbRun argument
  rRun,           \* r: runs completed so far
  rTexts,         \* the text of each completed run, in run order
  rText,          \* result["text"]
  multiRes,       \* multiRes
  \* VideoAudioMergeAPI, one decode_request per request
  vPc,            \* position of the request in decode_request
  vRequest,       \* the request mapping received
  vFiles,         \* temporary files the request created
  vExc            \* what decode_request raised, "none" when nothing

jsonVars == <<jPc, jIn, jParts, jOut>>
runsVars == <<rPc, nbRun, rRun, rTexts, rText, multiRes>>
mergeVars == <<vPc, vRequest, vFiles, vExc>>
utilVars == <<jsonVars, runsVars, mergeVars>>

vars == <<markVars, gladiaVars, optsVars, utilVars>>

JsonIdle ==
  /\ jPc = "off"
  /\ jIn = <<>>
  /\ jParts = <<>>
  /\ jOut = <<>>

RunsIdle ==
  /\ rPc = "off"
  /\ nbRun = 1
  /\ rRun = 0
  /\ rTexts = <<>>
  /\ rText = <<>>
  /\ multiRes = <<>>

MergeIdle ==
  /\ vPc = [t \in Requests |-> "off"]
  /\ vRequest = [t \in Requests |-> [video |-> "absent", audio_url |-> "absent"]]
  /\ vFiles = [t \in Requests |-> {}]
  /\ vExc = [t \in Requests |-> "none"]

UtilIdle == JsonIdle /\ RunsIdle /\ MergeIdle

\* ------------------------------------------------------------------ texts
\* A transcript is a sequence of tokens: "W" is any spelling matched by the
\* aWhisper pattern, "O" any spelling matched by aOk (each with its trailing
\* aSep separators), every other token is an ordinary word.
NoneText == <<"None">>
EmptyText == <<>>

BackendTexts ==
  { <<>>,
    <<"W", "O", "x", "O", "W">>,
    <<"O", "W", "x", "W", "O">>,
    <<"W", "O", "O", "W">>,
    <<"x">>,
    <<"W", "O", "y">> }

StartsWith(s, p) == Len(s) >= Len(p) /\ SubSeq(s, 1, Len(p)) = p
EndsWith(s, p) == Len(s) >= Len(p) /\ SubSeq(s, Len(s) - Len(p) + 1, Len(s)) = p
DropFirst(s, n) == SubSeq(s, n + 1, Len(s))
DropLast(s, n) == SubSeq(s, 1, Len(s) - n)

\* re.sub("(^ *"+head+"|"+tail+" *$)", "", text, 2): the leading pair is removed
\* when the text starts with it, then the trailing pair when what is left of
\* the text ends with it.
StripMarks(s, head, tail) ==
  LET a == IF StartsWith(s, head) THEN DropFirst(s, Len(head)) ELSE s
  IN IF EndsWith(a, tail) THEN DropLast(a, Len(tail)) ELSE a

\* ^ *(aOk|aSep|aWhisper)*aWhisper(aOk|aSep|aWhisper)* *$
OnlyMarks(s) ==
  /\ \A i \in 1..Len(s) : s[i] \in {"W", "O"}
  /\ \E i \in 1..Len(s) : s[i] = "W"

\* ^ *head .* tail *$
Bracketed(s, head, tail) ==
  /\ Len(s) >= Len(head) + Len(tail)
  /\ StartsWith(s, head)
  /\ EndsWith(s, tail)

MarkFwdHead == <<"W", "O">>
MarkFwdTail == <<"O", "W">>
MarkRevHead == <<"O", "W">>
MarkRevTail == <<"W", "O">>

\* ------------------------------------------------------ transcribeMARK
\* Lines 510-521: the overrides that force mode 0.
NoMarkLanguages == {"ar", "he", "ru", "zh"}

EffectiveModeIgnoringMusic(m, lng, isMusic, found) ==
  LET m1 == IF lng \in NoMarkLanguages /\ m # 3 THEN 0 ELSE m
  IN IF found = "SM4T" THEN 0 ELSE m1
EffectiveMode(m, lng, isMusic, found) ==
  LET m1 == IF lng \in NoMarkLanguages /\ m # 3 THEN 0 ELSE m
      m2 == IF isMusic /\ m1 # 3 THEN 0 ELSE m1
  IN IF found = "SM4T" THEN 0 ELSE m2

\* Lines 537-564: the marker-bracketed and the compressed variants.
MarkedPath(p, m) == IF m \in {1, 2} THEN Append(p, "MRK") ELSE p
PreparedPath(p, m, isMusic) ==
  IF m = 0 THEN p
  ELSE IF ~isMusic THEN Append(MarkedPath(p, m), "CPS") ELSE MarkedPath(p, m)
PreparedFiles(p, m, isMusic) ==
  IF m = 0 THEN {}
  ELSE (IF m \in {1, 2} THEN {MarkedPath(p, m)} ELSE {})
       \cup (IF ~isMusic THEN {PreparedPath(p, m, isMusic)} ELSE {})

Prepare(t) ==
  /\ mpc[t] = "entry"
  /\ UNCHANGED <<gladiaVars, optsVars, utilVars>>
  /\ LET m == EffectiveMode(mode[t], mLng[t], mIsMusic[t], whisperFound)
     IN /\ mode' = [mode EXCEPT ![t] = m]
        /\ mPathIn' = [mPathIn EXCEPT ![t] = PreparedPath(mPath[t], m, mIsMusic[t])]
        /\ files' = [files EXCEPT ![t] = @ \cup PreparedFiles(mPath[t], m, mIsMusic[t])]
  /\ mpc' = [mpc EXCEPT ![t] = "acquire"]
  /\ UNCHANGED <<mTop, mLog, whisperFound, lock, lockBy, mIsMusic, mLng, mPath, aLast, text, weird,
                 mExc, backendRaised, calls>>

\* Line 587: lock.acquire() blocks while the lock is held.
Acquire(t) ==
  /\ mpc[t] = "acquire"
  /\ UNCHANGED <<gladiaVars, optsVars, utilVars>>
  /\ ~lock
  /\ lock' = TRUE
  /\ lockBy' = t
  /\ mpc' = [mpc EXCEPT ![t] = "infer"]
  /\ UNCHANGED <<mTop, mLog, whisperFound, mode, mIsMusic, mLng, mPath, mPathIn, aLast, text,
                 weird, mExc, backendRaised, calls, files>>

\* Lines 588-703: the backend call returns a transcript. Outside mode 3 the srt
\* is empty; in mode 3 the text is not inspected by transcribeMARK.
InferOk(t) ==
  /\ mpc[t] = "infer"
  /\ UNCHANGED <<gladiaVars, optsVars, utilVars>>
  /\ \/ /\ mode[t] # 3
        /\ \E s \in BackendTexts : text' = [text EXCEPT ![t] = s]
        /\ weird' = [weird EXCEPT ![t] = 0]
     \/ /\ mode[t] = 3
        /\ whisperFound # "SM4T"
        /\ \E n \in 0..MaxWeird : weird' = [weird EXCEPT ![t] = n]
        /\ text' = [text EXCEPT ![t] = <<"x">>]
  /\ mLog' = [mLog EXCEPT ![t] = Append(@, mode[t])]
  /\ calls' = [calls EXCEPT ![t] = @ + 1]
  /\ mpc' = [mpc EXCEPT ![t] = "release"]
  /\ UNCHANGED <<mTop, whisperFound, lock, lockBy, mode, mIsMusic, mLng, mPath, mPathIn, aLast,
                 mExc, backendRaised, files>>

\* Lines 588-703: the backend call raises.
InferRaise(t) ==
  /\ mpc[t] = "infer"
  /\ UNCHANGED <<gladiaVars, optsVars, utilVars>>
  /\ mLog' = [mLog EXCEPT ![t] = Append(@, mode[t])]
  /\ calls' = [calls EXCEPT ![t] = @ + 1]
  /\ backendRaised' = [backendRaised EXCEPT ![t] = TRUE]
  /\ mpc' = [mpc EXCEPT ![t] = "handler"]
  /\ UNCHANGED <<mTop, whisperFound, lock, lockBy, mode, mIsMusic, mLng, mPath, mPathIn, aLast,
                 text, weird, mExc, files>>

HandlerLeak(t) ==
  /\ mpc[t] = "handler"
  /\ UNCHANGED <<gladiaVars, optsVars, utilVars>>
  /\ text' = [text EXCEPT ![t] = EmptyText]
  /\ weird' = [weird EXCEPT ![t] = 0]
  /\ mpc' = [mpc EXCEPT ![t] = "returned"]
  /\ UNCHANGED <<mTop, mLog, whisperFound, lock, lockBy, mode, mIsMusic, mLng, mPath,
                 mPathIn, aLast, mExc, backendRaised, calls, files>>

\* Lines 704-708: the except block releases the lock and sets the empty result.
\* Lock.release() on an unlocked lock raises RuntimeError.
Handler(t) ==
  /\ mpc[t] = "handler"
  /\ UNCHANGED <<gladiaVars, optsVars, utilVars>>
  /\ IF lock
       THEN /\ lock' = FALSE
            /\ lockBy' = 0
            /\ text' = [text EXCEPT ![t] = EmptyText]
            /\ weird' = [weird EXCEPT ![t] = 0]
            /\ mpc' = [mpc EXCEPT ![t] = "release"]
            /\ UNCHANGED mExc
       ELSE /\ mExc' = [mExc EXCEPT ![t] = "RuntimeError"]
            /\ mpc' = [mpc EXCEPT ![t] = "raised"]
            /\ UNCHANGED <<lock, lockBy, text, weird>>
  /\ UNCHANGED <<mTop, mLog, whisperFound, mode, mIsMusic, mLng, mPath, mPathIn, aLast,
                 backendRaised, calls, files>>

ReleaseSkipped(t) ==
  /\ mpc[t] = "release"
  /\ UNCHANGED <<gladiaVars, optsVars, utilVars>>
  /\ mpc' = [mpc EXCEPT ![t] = "post"]
  /\ UNCHANGED <<mTop, mLog, whisperFound, lock, lockBy, mode, mIsMusic, mLng, mPath,
                 mPathIn, aLast, text, weird, mExc, backendRaised, calls, files>>

\* Line 710: lock.release(), reached on the normal path and after the except
\* block alike. threading.Lock has no owner: it unlocks whoever holds it.
Release(t) ==
  /\ mpc[t] = "release"
  /\ UNCHANGED <<gladiaVars, optsVars, utilVars>>
  /\ IF lock
       THEN /\ lock' = FALSE
            /\ lockBy' = 0
            /\ mpc' = [mpc EXCEPT ![t] = "post"]
            /\ UNCHANGED mExc
       ELSE /\ mExc' = [mExc EXCEPT ![t] = "RuntimeError"]
            /\ mpc' = [mpc EXCEPT ![t] = "raised"]
            /\ UNCHANGED <<lock, lockBy>>
  /\ UNCHANGED <<mTop, mLog, whisperFound, mode, mIsMusic, mLng, mPath, mPathIn, aLast, text,
                 weird, backendRaised, calls, files>>

\* Lines 712-754: what the call does with the transcript. "return" gives the
\* text returned; "recurse" the mode and aLast of the recursive call.
PostDecisionBackward(m, s, last) ==
  IF m \in {0, 3} THEN [kind |-> "return", text |-> s]
  ELSE IF m = 1 THEN
    IF OnlyMarks(s) THEN [kind |-> "recurse", mode |-> 2, aLast |-> EmptyText]
    ELSE IF Bracketed(s, MarkFwdHead, MarkFwdTail)
      THEN [kind |-> "return", text |-> StripMarks(s, MarkFwdHead, MarkFwdTail)]
    ELSE [kind |-> "recurse", mode |-> 2,
          aLast |-> StripMarks(s, MarkFwdHead, MarkFwdTail)]
  ELSE
    IF StripMarks(s, MarkRevHead, MarkRevTail) = last
      THEN [kind |-> "return", text |-> StripMarks(s, MarkRevHead, MarkRevTail)]
    ELSE IF OnlyMarks(s) THEN [kind |-> "return", text |-> EmptyText]
    ELSE IF Bracketed(s, MarkRevHead, MarkRevTail)
      THEN [kind |-> "return", text |-> StripMarks(s, MarkRevHead, MarkRevTail)]
    ELSE [kind |-> "recurse", mode |-> 1,
          aLast |-> StripMarks(s, MarkRevHead, MarkRevTail)]
PostDecisionNoAccept(m, s, last) ==
  IF m \in {0, 3} THEN [kind |-> "return", text |-> s]
  ELSE IF m = 1 THEN
    [kind |-> "recurse", mode |-> 2,
     aLast |-> StripMarks(s, MarkFwdHead, MarkFwdTail)]
  ELSE
    IF StripMarks(s, MarkRevHead, MarkRevTail) = last
      THEN [kind |-> "return", text |-> StripMarks(s, MarkRevHead, MarkRevTail)]
    ELSE IF OnlyMarks(s) THEN [kind |-> "return", text |-> EmptyText]
    ELSE IF Bracketed(s, MarkRevHead, MarkRevTail)
      THEN [kind |-> "return", text |-> StripMarks(s, MarkRevHead, MarkRevTail)]
    ELSE [kind |-> "recurse", mode |-> 0,
          aLast |-> StripMarks(s, MarkRevHead, MarkRevTail)]
PostDecisionNoConfirm(m, s, last) ==
  IF m \in {0, 3} THEN [kind |-> "return", text |-> s]
  ELSE IF m = 1 THEN
    IF OnlyMarks(s) THEN [kind |-> "recurse", mode |-> 2, aLast |-> EmptyText]
    ELSE IF Bracketed(s, MarkFwdHead, MarkFwdTail)
      THEN [kind |-> "return", text |-> StripMarks(s, MarkFwdHead, MarkFwdTail)]
    ELSE [kind |-> "recurse", mode |-> 2,
          aLast |-> StripMarks(s, MarkFwdHead, MarkFwdTail)]
  ELSE
    IF OnlyMarks(s) THEN [kind |-> "return", text |-> EmptyText]
    ELSE IF Bracketed(s, MarkRevHead, MarkRevTail)
      THEN [kind |-> "return", text |-> StripMarks(s, MarkRevHead, MarkRevTail)]
    ELSE [kind |-> "recurse", mode |-> 0,
          aLast |-> StripMarks(s, MarkRevHead, MarkRevTail)]
PostDecision(m, s, last) ==
  IF m \in {0, 3} THEN [kind |-> "return", text |-> s]
  ELSE IF m = 1 THEN
    IF OnlyMarks(s) THEN [kind |-> "recurse", mode |-> 2, aLast |-> EmptyText]
    ELSE IF Bracketed(s, MarkFwdHead, MarkFwdTail)
      THEN [kind |-> "return", text |-> StripMarks(s, MarkFwdHead, MarkFwdTail)]
    ELSE [kind |-> "recurse", mode |-> 2,
          aLast |-> StripMarks(s, MarkFwdHead, MarkFwdTail)]
  ELSE
    IF StripMarks(s, MarkRevHead, MarkRevTail) = last
      THEN [kind |-> "return", text |-> StripMarks(s, MarkRevHead, MarkRevTail)]
    ELSE IF OnlyMarks(s) THEN [kind |-> "return", text |-> EmptyText]
    ELSE IF Bracketed(s, MarkRevHead, MarkRevTail)
      THEN [kind |-> "return", text |-> StripMarks(s, MarkRevHead, MarkRevTail)]
    ELSE [kind |-> "recurse", mode |-> 0,
          aLast |-> StripMarks(s, MarkRevHead, MarkRevTail)]

\* The recursive calls pass path, opts, mode, lngInput and aLast only: isMusic
\* is back to its default False.
Post(t) ==
  /\ mpc[t] = "post"
  /\ UNCHANGED <<gladiaVars, optsVars, utilVars>>
  /\ LET d == PostDecision(mode[t], text[t], aLast[t])
     IN IF d.kind = "return"
          THEN /\ text' = [text EXCEPT ![t] = d.text]
               /\ mpc' = [mpc EXCEPT ![t] = "returned"]
               /\ UNCHANGED <<mode, aLast, mIsMusic>>
          ELSE /\ mode' = [mode EXCEPT ![t] = d.mode]
               /\ aLast' = [aLast EXCEPT ![t] = d.aLast]
               /\ mIsMusic' = [mIsMusic EXCEPT ![t] = FALSE]
               /\ mpc' = [mpc EXCEPT ![t] = "entry"]
               /\ UNCHANGED text
  /\ UNCHANGED <<mTop, mLog, whisperFound, lock, lockBy, mLng, mPath, mPathIn, weird, mExc,
                 backendRaised, calls, files>>

MarkStep(t) ==
  \/ Prepare(t)
  \/ Acquire(t)
  \/ InferOk(t)
  \/ InferRaise(t)
  \/ Handler(t)
  \/ Release(t)
  \/ Post(t)

\* ------------------------------------------------- transcribe_with_gladia
NoResult == [kind |-> "none"]
NoBody == [none |-> TRUE]
EmptyResult == [text |-> <<>>, srt |-> <<>>, json |-> <<>>]

\* str.strip(): leading and trailing whitespace tokens removed.
RECURSIVE LStrip(_)
LStrip(s) == IF s # <<>> /\ Head(s) = " " THEN LStrip(Tail(s)) ELSE s
RECURSIVE RStrip(_)
RStrip(s) == IF s # <<>> /\ s[Len(s)] = " " THEN RStrip(DropLast(s, 1)) ELSE s
Strip(s) == RStrip(LStrip(s))

\* json_util.py: the response normalisation.
CreateWord(w) == [start |-> w.start, end |-> w.end, text |-> Strip(w.word)]
CreateJsonSegment(u) ==
  [start |-> u.start, end |-> u.end, sentence |-> Strip(u.text),
   words |-> [i \in 1..Len(u.words) |-> CreateWord(u.words[i])]]
\* The list comprehension of convert_gladia_to_internal_format.
JsonSegments(us) == [i \in 1..Len(us) |-> CreateJsonSegment(us[i])]

\* convert_gladia_to_internal_format sets this flag to True and never changes it.
IsTranslationEmpty(body) == TRUE

\* _get_utterances: translation.results[0] when the flag is False.
GetUtterancesRaises(body, isTranslationEmpty) ==
  ~isTranslationEmpty /\ body.translation = <<>>
GetUtterances(body, isTranslationEmpty) ==
  IF ~isTranslationEmpty THEN body.translation[1].utterances
  ELSE body.transcription.utterances

\* _get_text_and_srt: subtitles[0] of the transcription is read unguarded.
GetTextAndSrtRaises(body, isTranslationEmpty) ==
  IF isTranslationEmpty THEN body.transcription.subtitles = <<>>
  ELSE body.translation = <<>>
GetTextAndSrt(body, isTranslationEmpty) ==
  IF isTranslationEmpty
    THEN [text |-> body.transcription.full_transcript,
          srt |-> body.transcription.subtitles[1]]
    ELSE [text |-> body.translation[1].full_transcript,
          srt |-> IF body.translation[1].subtitles # <<>>
                    THEN body.translation[1].subtitles[1] ELSE <<>>]

ConvertRaises(body) ==
  \/ GetUtterancesRaises(body, IsTranslationEmpty(body))
  \/ GetTextAndSrtRaises(body, IsTranslationEmpty(body))
convert_gladia_to_internal_format(body) ==
  [text |-> GetTextAndSrt(body, IsTranslationEmpty(body)).text,
   srt |-> GetTextAndSrt(body, IsTranslationEmpty(body)).srt,
   json |-> JsonSegments(GetUtterances(body, IsTranslationEmpty(body)))]

\* The responses of the remote service. A key the body lacks reads as the
\* default the code's .get gives it.
SrcWords == << [start |-> 0, end |-> 1, word |-> <<"Hello">>],
               [start |-> 1, end |-> 2, word |-> <<" ", "world">>] >>
SrcUtterance == [start |-> 0, end |-> 2, text |-> <<"Hello", " ", "world", " ">>,
                 words |-> SrcWords]
TgtUtterance == [start |-> 0, end |-> 2, text |-> <<"Bonjour">>,
                 words |-> << [start |-> 0, end |-> 2, word |-> <<"Bonjour">>] >>]
Transcriptions ==
  { [full_transcript |-> t, subtitles |-> s, utterances |-> u] :
      t \in {<<>>, <<"Hello", " ", "world">>},
      s \in {<<>>, << <<"srt-src">> >>},
      u \in {<<>>, <<SrcUtterance>>} }
TranslationResults ==
  { [full_transcript |-> <<"Bonjour">>, subtitles |-> s, utterances |-> u] :
      s \in {<<>>, << <<"srt-tgt">> >>},
      u \in {<<>>, <<TgtUtterance>>} }
Translations == {<<>>} \cup { <<r>> : r \in TranslationResults }
DoneBodies ==
  { [transcription |-> tr, translation |-> tl] :
      tr \in Transcriptions, tl \in Translations }

HttpStatuses == {200, 201, 400, 500}

\* Line 778: only 200 counts as an uploaded file.
UploadUnchecked(status) == TRUE
UploadOk(status) == status = 200
\* Lines 810 and 828.
SubmitOk(status) == status = 200 \/ status = 201
PollOk(status) == status = 200 \/ status = 201

GladiaReturn(r) ==
  /\ gResult' = r
  /\ gPc' = "done"
  /\ UNCHANGED gExc
GladiaRaise(e) ==
  /\ gExc' = e
  /\ gPc' = "raised"
  /\ UNCHANGED gResult

\* Lines 762-765.
GladiaStart ==
  /\ gPc = "start"
  /\ UNCHANGED <<markVars, optsVars, utilVars>>
  /\ IF gApiKey
       THEN gPc' = "upload" /\ UNCHANGED <<gResult, gExc>>
       ELSE GladiaReturn(EmptyResult)
  /\ UNCHANGED <<gApiKey, gLog, gUploadStatus, gSubmitStatus, gTotal, gFibA,
                 gFibB, gLastWait, gBody>>

\* Lines 773-784: open the file, post it, read audio_url.
GladiaUpload ==
  /\ gPc = "upload"
  /\ UNCHANGED <<markVars, optsVars, utilVars>>
  /\ \/ /\ GladiaRaise("FileNotFoundError")
        /\ UNCHANGED <<gLog, gUploadStatus>>
     \/ /\ gLog' = Append(gLog, "upload")
        /\ \/ /\ GladiaReturn(EmptyResult)      \* requests.exceptions.RequestException
              /\ UNCHANGED gUploadStatus
           \/ \E st \in HttpStatuses, hasField \in BOOLEAN :
                /\ gUploadStatus' = st
                /\ IF ~UploadOk(st) THEN GladiaReturn(EmptyResult)
                   ELSE IF ~hasField THEN GladiaRaise("KeyError")
                   ELSE gPc' = "submit" /\ UNCHANGED <<gResult, gExc>>
  /\ UNCHANGED <<gApiKey, gSubmitStatus, gTotal, gFibA, gFibB, gLastWait, gBody>>

\* Lines 787-823 and 846-849: post the job, read result_url, start the generator.
GladiaSubmit ==
  /\ gPc = "submit"
  /\ UNCHANGED <<markVars, optsVars, utilVars>>
  /\ gLog' = Append(gLog, "submit")
  /\ \/ /\ GladiaReturn(EmptyResult)            \* RequestException
        /\ UNCHANGED gSubmitStatus
     \/ \E st \in HttpStatuses, hasField \in BOOLEAN :
          /\ gSubmitStatus' = st
          /\ IF ~SubmitOk(st) THEN GladiaReturn(EmptyResult)
             ELSE IF ~hasField THEN GladiaRaise("KeyError")
             ELSE gPc' = "loop" /\ UNCHANGED <<gResult, gExc>>
  /\ UNCHANGED <<gApiKey, gUploadStatus, gTotal, gFibA, gFibB, gLastWait, gBody>>

\* Line 825 and lines 844-845: the loop test.
LoopUnbounded(total) == TRUE
LoopContinues(total) == total < max_wait_time
GladiaLoop ==
  /\ gPc = "loop"
  /\ UNCHANGED <<markVars, optsVars, utilVars>>
  /\ IF LoopContinues(gTotal)
       THEN gPc' = "poll" /\ UNCHANGED <<gResult, gExc>>
       ELSE GladiaReturn(EmptyResult)
  /\ UNCHANGED <<gApiKey, gLog, gUploadStatus, gSubmitStatus, gTotal, gFibA,
                 gFibB, gLastWait, gBody>>

\* Lines 835-838: next(fib), the sum and the sleep.
GladiaWait ==
  /\ gLastWait' = gFibA
  /\ gTotal' = gTotal + gFibA
  /\ gFibA' = gFibB
  /\ gFibB' = gFibA + gFibB
  /\ gLog' = Append(Append(gLog, "poll"), "wait")
  /\ gPc' = "loop"
  /\ UNCHANGED <<gResult, gExc, gBody>>

\* Lines 826-842: one poll of the result URL.
GladiaPoll ==
  /\ gPc = "poll"
  /\ UNCHANGED <<markVars, optsVars, utilVars>>
  /\ \/ /\ GladiaReturn(EmptyResult)            \* RequestException
        /\ gLog' = Append(gLog, "poll")
        /\ UNCHANGED <<gTotal, gFibA, gFibB, gLastWait, gBody>>
     \/ \E st \in HttpStatuses :
          /\ ~PollOk(st)
          /\ GladiaReturn(EmptyResult)
          /\ gLog' = Append(gLog, "poll")
          /\ UNCHANGED <<gTotal, gFibA, gFibB, gLastWait, gBody>>
     \/ \E body \in DoneBodies :
          /\ gBody' = body
          /\ gLog' = Append(gLog, "poll")
          /\ IF ConvertRaises(body) THEN GladiaRaise("IndexError")
             ELSE GladiaReturn(convert_gladia_to_internal_format(body))
          /\ UNCHANGED <<gTotal, gFibA, gFibB, gLastWait>>
     \/ GladiaWait
  /\ UNCHANGED <<gApiKey, gUploadStatus, gSubmitStatus>>

GladiaStep ==
  \/ GladiaStart
  \/ GladiaUpload
  \/ GladiaSubmit
  \/ GladiaLoop
  \/ GladiaPoll

GladiaIdle ==
  /\ gPc = "off"
  /\ gApiKey = TRUE
  /\ gLog = <<>>
  /\ gUploadStatus = 0
  /\ gSubmitStatus = 0
  /\ gTotal = 0
  /\ gFibA = 1
  /\ gFibB = 1
  /\ gLastWait = 0
  /\ gBody = NoBody
  /\ gResult = NoResult
  /\ gExc = "none"


NoPath == <<"unbound">>
\* A Python value that is a number or None; "raised" and "notyet" say that
\* getDuration raised, or was not called yet.
Num(d) == [kind |-> "number", val |-> d]
NoneValue == [kind |-> "None", val |-> 0]
RaisedValue == [kind |-> "raised", val |-> 0]
NotYet == [kind |-> "notyet", val |-> 0]

OptsIdle ==
  /\ oPc = "off"
  /\ oIsMusic = FALSE
  /\ oAddSRT = FALSE
  /\ oOnlySRT = FALSE
  /\ oLngInput = "en"
  /\ oRemix = "mid"
  /\ pathIn = NoPath
  /\ pathClean = NoPath
  /\ pathNoCut = NoPath
  /\ pathDemucsVocals = NoPath
  /\ pathREMIXN = NoPath
  /\ duration = Num(-1)
  /\ oProbed = NotYet
  /\ oGuardReached = FALSE
  /\ oCounts = <<>>
  /\ oSel = 0
  /\ oText = EmptyText
  /\ oResult = NoResult
  /\ oExc = "none"

\* ------------------------------------- decode_request and transcribeOpts
\* The request SpecOpts follows.
Rq == CHOOSE t \in Requests : \A u \in Requests : t <= u

Durations == {10, 31, 600, 601}
\* getDuration returns a number, returns None (line 169), or raises (a log
\* that cannot be opened, or one with neither marker: None.split at line 168).
ProbeOutcomes == {Num(d) : d \in Durations} \cup {NoneValue, RaisedValue}

Exists(p) == p \in files[Rq]
AddFiles(S) == files' = [files EXCEPT ![Rq] = @ \cup S]

markButFiles == <<whisperFound, lock, lockBy, mpc, mode, mIsMusic, mLng, mPath, mPathIn,
                  aLast, text, weird, mExc, backendRaised, calls, mTop, mLog>>
optsInputs == <<oIsMusic, oAddSRT, oOnlySRT, oLngInput, oRemix>>

\* A call of transcribeMARK(path, opts, mode=m, lngInput, isMusic, nbRun, ...).
CallMark(path, m) ==
  /\ mpc' = [mpc EXCEPT ![Rq] = "entry"]
  /\ mode' = [mode EXCEPT ![Rq] = m]
  /\ mIsMusic' = [mIsMusic EXCEPT ![Rq] = oIsMusic]
  /\ mPath' = [mPath EXCEPT ![Rq] = path]
  /\ mPathIn' = [mPathIn EXCEPT ![Rq] = path]
  /\ aLast' = [aLast EXCEPT ![Rq] = NoneText]
  /\ text' = [text EXCEPT ![Rq] = EmptyText]
  /\ weird' = [weird EXCEPT ![Rq] = 0]
  /\ mTop' = [mTop EXCEPT ![Rq] = m]
  /\ mLog' = [mLog EXCEPT ![Rq] = <<>>]
  /\ UNCHANGED <<whisperFound, lock, lockBy, mLng, mExc, backendRaised, calls, files>>

MarkEnded == mpc[Rq] \in {"returned", "raised"}
\* The call's frame is gone once its result is taken.
MarkConsumed ==
  /\ mpc' = [mpc EXCEPT ![Rq] = "off"]
  /\ mode' = [mode EXCEPT ![Rq] = 0]
  /\ mIsMusic' = [mIsMusic EXCEPT ![Rq] = FALSE]
  /\ mPath' = [mPath EXCEPT ![Rq] = NoPath]
  /\ mPathIn' = [mPathIn EXCEPT ![Rq] = NoPath]
  /\ aLast' = [aLast EXCEPT ![Rq] = NoneText]
  /\ text' = [text EXCEPT ![Rq] = EmptyText]
  /\ weird' = [weird EXCEPT ![Rq] = 0]
  /\ mTop' = [mTop EXCEPT ![Rq] = 0]
  /\ mLog' = [mLog EXCEPT ![Rq] = <<>>]
  /\ UNCHANGED <<whisperFound, lock, lockBy, mLng, mExc, backendRaised, calls, files>>

\* An exception leaves transcribeOpts, predict and the request.
ORaise(e) ==
  /\ oPc' = "raised"
  /\ oExc' = e
  /\ UNCHANGED oResult

\* Lines 469-499: the result is built from resultSRT (or from the guard loop's
\* result) and returned.
OReturn(r) ==
  /\ oPc' = "done"
  /\ oResult' = r
  /\ UNCHANGED oExc

Transcript(t, n) == [kind |-> "transcript", text |-> t, weird |-> n]
TooLongResult(d) == [kind |-> "tooLong", duration |-> d]

\* whisperhallu_server.py lines 40-131.
DecodeRequest ==
  /\ oPc = "decode"
  /\ UNCHANGED <<markButFiles, gladiaVars, utilVars>>
  /\ \/ /\ UNCHANGED files                      \* download failed / no file
        /\ oPc' = "rejected"
     \/ /\ AddFiles({<<"tmp">>})                 \* unsupported extension, or the
        /\ oPc' = "rejected"                     \* upload cannot be loaded
     \/ /\ AddFiles({<<"tmp">>, <<"wav">>})      \* the export failed
        /\ oPc' = "rejected"
     \/ /\ AddFiles({<<"wav">>})                 \* temp_file unlinked, wav_file kept
        /\ oPc' = "predict"
  /\ oExc' = IF oPc' = "rejected" THEN "HTTPException" ELSE oExc
  /\ UNCHANGED <<optsInputs, pathIn, pathClean, pathNoCut, pathDemucsVocals,
                 pathREMIXN, duration, oProbed, oGuardReached, oCounts, oSel,
                 oText, oResult>>

\* whisperhallu_server.py lines 133-147, transcribePrompt, and lines 240-247.
Predict ==
  /\ oPc = "predict"
  /\ UNCHANGED <<markVars, gladiaVars, utilVars>>
  /\ pathIn' = <<"wav">>
  /\ pathClean' = <<"wav">>
  /\ pathNoCut' = <<"wav">>
  /\ duration' = Num(-1)
  /\ oPc' = "convert"
  /\ UNCHANGED <<optsInputs, pathDemucsVocals, pathREMIXN, oProbed, oGuardReached,
                 oCounts, oSel, oText, oResult, oExc>>

\* Lines 248-261: ffmpeg writes the WAV (or fails; os.system does not raise) and
\* its log; the paths move on unless getDuration raised.
ConvertWav ==
  /\ oPc = "convert"
  /\ UNCHANGED <<markButFiles, gladiaVars, utilVars>>
  /\ LET pathWAV == Append(pathIn, "WAV")
     IN \E toolOk \in BOOLEAN, probe \in ProbeOutcomes :
          /\ toolOk => Exists(pathIn)
          /\ AddFiles((IF toolOk THEN {pathWAV} ELSE {}) \cup {Append(pathWAV, "log")})
          /\ IF probe = RaisedValue
               THEN UNCHANGED <<duration, pathIn, pathClean>>
               ELSE /\ duration' = probe
                    /\ pathIn' = pathWAV
                    /\ pathClean' = pathWAV
  /\ oPc' = "checkdur"
  /\ UNCHANGED <<optsInputs, pathNoCut, pathDemucsVocals, pathREMIXN, oProbed,
                 oGuardReached, oCounts, oSel, oText, oResult, oExc>>

\* Line 292.
TooLongOrEqual(d, maxDuration) == d >= maxDuration
TooLong(d, maxDuration) == d > maxDuration

\* Lines 283-296: None > maxDuration raises TypeError, caught at line 294.
CheckDuration ==
  /\ oPc = "checkdur"
  /\ UNCHANGED <<markButFiles, gladiaVars, utilVars>>
  /\ AddFiles({Append(pathIn, "dur")})
  /\ \E probe \in ProbeOutcomes :
       /\ oProbed' = probe
       /\ duration' = IF probe = RaisedValue THEN duration ELSE probe
       /\ IF probe.kind = "number" /\ TooLong(probe.val, MAX_DURATION)
            THEN OReturn(TooLongResult(probe.val))
            ELSE oPc' = "demucs" /\ UNCHANGED <<oResult, oExc>>
  /\ UNCHANGED <<optsInputs, pathIn, pathClean, pathNoCut, pathDemucsVocals,
                 pathREMIXN, oGuardReached, oCounts, oSel, oText>>

\* Lines 313-333.
Demucs ==
  /\ oPc = "demucs"
  /\ UNCHANGED <<markButFiles, gladiaVars, utilVars>>
  /\ pathDemucsVocals' = Append(pathIn, "vocals")
  /\ \/ /\ Exists(pathIn)
        /\ AddFiles({Append(pathIn, "vocals"), Append(pathIn, "other")})
        /\ pathNoCut' = Append(pathIn, "vocals")
        /\ pathIn' = Append(pathIn, "vocals")
     \/ UNCHANGED <<files, pathNoCut, pathIn>>   \* demucs_audio raised
  /\ oPc' = "silcut"
  /\ UNCHANGED <<optsInputs, pathClean, pathREMIXN, duration, oProbed,
                 oGuardReached, oCounts, oSel, oText, oResult, oExc>>

\* Lines 335-346: pathIn moves on whatever ffmpeg's exit code is; only an
\* exception raised by os.system itself leaves it alone.
SilCut ==
  /\ oPc = "silcut"
  /\ UNCHANGED <<markButFiles, gladiaVars, utilVars>>
  /\ LET pathSILCUT == Append(pathIn, "SILCUT")
     IN \/ /\ Exists(pathIn)
           /\ AddFiles({pathSILCUT, Append(pathSILCUT, "log")})
           /\ pathIn' = pathSILCUT
        \/ /\ AddFiles({Append(pathSILCUT, "log")})
           /\ pathIn' = pathSILCUT
        \/ UNCHANGED <<files, pathIn>>
  /\ oPc' = "vad"
  /\ UNCHANGED <<optsInputs, pathClean, pathNoCut, pathDemucsVocals, pathREMIXN,
                 duration, oProbed, oGuardReached, oCounts, oSel, oText, oResult,
                 oExc>>

\* Lines 348-362.
VoiceActivity ==
  /\ oPc = "vad"
  /\ UNCHANGED <<markButFiles, gladiaVars, utilVars>>
  /\ \/ /\ ~oIsMusic
        /\ Exists(pathIn)
        /\ AddFiles({Append(pathIn, "VAD")})
        /\ pathIn' = Append(pathIn, "VAD")
     \/ /\ ~oIsMusic                              \* read_audio or the model raised
        /\ UNCHANGED <<files, pathIn>>
     \/ /\ oIsMusic
        /\ UNCHANGED <<files, pathIn>>
  /\ oPc' = "remix"
  /\ UNCHANGED <<optsInputs, pathClean, pathNoCut, pathDemucsVocals, pathREMIXN,
                 duration, oProbed, oGuardReached, oCounts, oSel, oText, oResult,
                 oExc>>

\* Lines 364-395.
Remix ==
  /\ oPc = "remix"
  /\ UNCHANGED <<markButFiles, gladiaVars, utilVars>>
  /\ LET pathNORM == Append(pathDemucsVocals, "NORM")
         pathMix == Append(pathNORM, "REMIX")
     IN IF oRemix = "ge1" THEN pathREMIXN' = pathClean /\ UNCHANGED files
        ELSE IF oRemix = "le0" THEN pathREMIXN' = pathDemucsVocals /\ UNCHANGED files
        ELSE IF oIsMusic THEN
          /\ pathREMIXN' = pathMix
          /\ \/ /\ Exists(pathDemucsVocals)
                /\ AddFiles({pathNORM, Append(pathNORM, "log"),
                             pathMix, Append(pathMix, "log")})
             \/ AddFiles({Append(pathNORM, "log"), Append(pathMix, "log")})
        ELSE UNCHANGED <<pathREMIXN, files>>
  /\ oPc' = "modesel"
  /\ UNCHANGED <<optsInputs, pathIn, pathClean, pathNoCut, pathDemucsVocals,
                 duration, oProbed, oGuardReached, oCounts, oSel, oText, oResult,
                 oExc>>

\* Lines 397-400.
InitialModeWithMarks(d) == 1
InitialMode(d) == IF d > MarkDurationLimit THEN 0 ELSE 1

\* Lines 397-408: duration > 30 with duration None raises TypeError, outside
\* every try block.
GuardLoop ==
  /\ oPc = "modesel"
  /\ UNCHANGED <<gladiaVars, utilVars>>
  /\ IF duration = NoneValue
       THEN /\ ORaise("TypeError")
            /\ UNCHANGED <<markVars, oGuardReached, oText>>
       ELSE /\ oGuardReached' = TRUE
            /\ UNCHANGED <<oResult, oExc>>
            /\ IF oOnlySRT
                 THEN /\ oText' = EmptyText
                      /\ oPc' = "srt"
                      /\ UNCHANGED markVars
                 ELSE /\ CallMark(pathIn, InitialMode(duration.val))
                      /\ oPc' = "guardRet"
                      /\ UNCHANGED oText
  /\ UNCHANGED <<optsInputs, pathIn, pathClean, pathNoCut, pathDemucsVocals,
                 pathREMIXN, duration, oProbed, oCounts, oSel>>

\* Lines 407-410: the guard loop's call returned (or raised).
GuardReturn ==
  /\ oPc = "guardRet"
  /\ MarkEnded
  /\ UNCHANGED <<gladiaVars, utilVars>>
  /\ MarkConsumed
  /\ IF mpc[Rq] = "raised"
       THEN ORaise(mExc[Rq]) /\ UNCHANGED oText
       ELSE /\ oText' = IF text[Rq] = EmptyText THEN <<"--">> ELSE text[Rq]
            /\ oPc' = "srt"
            /\ UNCHANGED <<oResult, oExc>>
  /\ UNCHANGED <<optsInputs, pathIn, pathClean, pathNoCut, pathDemucsVocals,
                 pathREMIXN, duration, oProbed, oGuardReached, oCounts, oSel>>

\* Lines 412-420, 466-468 and 484-489: the first SRT call, or no SRT at all.
\* On the SRT path result is rebuilt from resultSRT (lines 470-475): the guard
\* loop's text is not read again.
SrtStart ==
  /\ oPc = "srt"
  /\ UNCHANGED <<gladiaVars, utilVars>>
  /\ IF oOnlySRT \/ oAddSRT
       THEN /\ IF oIsMusic
                 THEN CallMark(pathREMIXN, 3) /\ oPc' = "srt1Ret"
                 ELSE CallMark(pathNoCut, 3) /\ oPc' = "plainRet"
            /\ oText' = EmptyText
            /\ UNCHANGED <<oResult, oExc>>
       ELSE /\ OReturn(Transcript(oText, 0))
            /\ UNCHANGED <<markVars, oText>>
  /\ UNCHANGED <<optsInputs, pathIn, pathClean, pathNoCut, pathDemucsVocals,
                 pathREMIXN, duration, oProbed, oGuardReached, oCounts, oSel>>

\* Lines 467-468 for content that is not music.
PlainReturn ==
  /\ oPc = "plainRet"
  /\ MarkEnded
  /\ UNCHANGED <<gladiaVars, utilVars>>
  /\ MarkConsumed
  /\ IF mpc[Rq] = "raised"
       THEN ORaise(mExc[Rq])
       ELSE OReturn(Transcript(text[Rq], weird[Rq]))
  /\ UNCHANGED <<optsInputs, pathIn, pathClean, pathNoCut, pathDemucsVocals,
                 pathREMIXN, duration, oProbed, oGuardReached, oCounts, oSel,
                 oText>>

\* The comparison of lines 432, 443, 454 and 461: the new attempt replaces
\* resultSRT when its count is below the count of the attempt before it.
Accepts(new, previous) == new < previous
Escalates(count) == count > weird_word_count_threshold

Last(s) == s[Len(s)]
SelectedCount == IF oSel = 0 THEN 0 ELSE oCounts[oSel]
FinishSrt(counts, sel) == OReturn(Transcript(<<"x">>, counts[sel]))

\* Lines 419-433: resultSRT of the remixed stems came back.
Srt1Return ==
  /\ oPc = "srt1Ret"
  /\ MarkEnded
  /\ UNCHANGED <<gladiaVars, utilVars>>
  /\ IF mpc[Rq] = "raised"
       THEN ORaise(mExc[Rq]) /\ MarkConsumed /\ UNCHANGED <<oCounts, oSel>>
       ELSE /\ oCounts' = <<weird[Rq]>>
            /\ oSel' = 1
            /\ IF oLngInput = "vi" /\ Escalates(weird[Rq])
                 THEN /\ CallMark(pathNoCut, 3)
                      /\ oPc' = "srt2Ret"
                      /\ UNCHANGED <<oResult, oExc>>
                 ELSE FinishSrt(oCounts', oSel') /\ MarkConsumed
  /\ UNCHANGED <<optsInputs, pathIn, pathClean, pathNoCut, pathDemucsVocals,
                 pathREMIXN, duration, oProbed, oGuardReached, oText>>

\* Lines 430-449: resultSRT2 came back. With "SILCUT" in pathIn the third
\* attempt is resultSRT2 again, and the remote service is next.
Srt2Return ==
  /\ oPc = "srt2Ret"
  /\ MarkEnded
  /\ UNCHANGED <<gladiaVars, utilVars>>
  /\ IF mpc[Rq] = "raised"
       THEN ORaise(mExc[Rq]) /\ MarkConsumed /\ UNCHANGED <<oCounts, oSel>>
       ELSE LET c2 == weird[Rq]
                sel2 == IF Accepts(c2, Last(oCounts)) THEN 2 ELSE oSel
            IN IF ~Escalates(c2)
                 THEN /\ oCounts' = Append(oCounts, c2)
                      /\ oSel' = sel2
                      /\ FinishSrt(oCounts', oSel') /\ MarkConsumed
               ELSE IF \A i \in DOMAIN pathIn : pathIn[i] # "SILCUT"
                 THEN /\ oCounts' = Append(oCounts, c2)
                      /\ oSel' = sel2
                      /\ CallMark(pathIn, 3)
                      /\ oPc' = "srt3Ret"
                      /\ UNCHANGED <<oResult, oExc>>
                 ELSE /\ oCounts' = Append(Append(oCounts, c2), c2)
                      /\ oSel' = IF Accepts(c2, c2) THEN 3 ELSE sel2
                      /\ oPc' = "gladia"
                      /\ MarkConsumed
                      /\ UNCHANGED <<oResult, oExc>>
  /\ UNCHANGED <<optsInputs, pathIn, pathClean, pathNoCut, pathDemucsVocals,
                 pathREMIXN, duration, oProbed, oGuardReached, oText>>

\* Lines 436-447: resultSRT3 came back from a backend call.
Srt3Return ==
  /\ oPc = "srt3Ret"
  /\ MarkEnded
  /\ UNCHANGED <<gladiaVars, utilVars>>
  /\ MarkConsumed
  /\ IF mpc[Rq] = "raised"
       THEN ORaise(mExc[Rq]) /\ UNCHANGED <<oCounts, oSel>>
       ELSE /\ oCounts' = Append(oCounts, weird[Rq])
            /\ oSel' = IF Accepts(weird[Rq], Last(oCounts)) THEN 3 ELSE oSel
            /\ IF Escalates(weird[Rq])
                 THEN oPc' = "gladia" /\ UNCHANGED <<oResult, oExc>>
                 ELSE FinishSrt(oCounts', oSel')
  /\ UNCHANGED <<optsInputs, pathIn, pathClean, pathNoCut, pathDemucsVocals,
                 pathREMIXN, duration, oProbed, oGuardReached, oText>>

\* What one call of transcribe_with_gladia ends with (SpecGladia steps
\* through the call): an exception, or a result with some number of
\* denylisted phrases in its text.
GladiaExceptions == {"FileNotFoundError", "KeyError", "IndexError"}

\* Lines 445-458: the remote attempt, counted on its text.
GladiaAttempt ==
  /\ oPc = "gladia"
  /\ UNCHANGED <<gladiaVars, utilVars>>
  /\ \/ /\ \E e \in GladiaExceptions : ORaise(e)
        /\ UNCHANGED <<markVars, oCounts, oSel>>
     \/ \E c4 \in 0..MaxWeird :
          /\ oCounts' = Append(oCounts, c4)
          /\ oSel' = IF Accepts(c4, Last(oCounts)) THEN 4 ELSE oSel
          /\ IF Escalates(c4)
               THEN /\ CallMark(pathClean, 3)
                    /\ oPc' = "srt5Ret"
                    /\ UNCHANGED <<oResult, oExc>>
               ELSE FinishSrt(oCounts', oSel') /\ UNCHANGED markVars
  /\ UNCHANGED <<optsInputs, pathIn, pathClean, pathNoCut, pathDemucsVocals,
                 pathREMIXN, duration, oProbed, oGuardReached, oText>>

\* Lines 457-462: resultSRT5 of the clean audio came back.
Srt5Return ==
  /\ oPc = "srt5Ret"
  /\ MarkEnded
  /\ UNCHANGED <<gladiaVars, utilVars>>
  /\ MarkConsumed
  /\ IF mpc[Rq] = "raised"
       THEN ORaise(mExc[Rq]) /\ UNCHANGED <<oCounts, oSel>>
       ELSE /\ oCounts' = Append(oCounts, weird[Rq])
            /\ oSel' = IF Accepts(weird[Rq], Last(oCounts)) THEN 5 ELSE oSel
            /\ FinishSrt(oCounts', oSel')
  /\ UNCHANGED <<optsInputs, pathIn, pathClean, pathNoCut, pathDemucsVocals,
                 pathREMIXN, duration, oProbed, oGuardReached, oText>>

OptsStep ==
  \/ DecodeRequest
  \/ Predict
  \/ ConvertWav
  \/ CheckDuration
  \/ Demucs
  \/ SilCut
  \/ VoiceActivity
  \/ Remix
  \/ GuardLoop
  \/ GuardReturn
  \/ SrtStart
  \/ PlainReturn
  \/ Srt1Return
  \/ Srt2Return
  \/ Srt3Return
  \/ GladiaAttempt
  \/ Srt5Return

\* ------------------------------------------- Spec: concurrent transcribeMARK
TopModes == {0, 1, 3}
Languages == {"en", "ru"}

MarkInit ==
  /\ whisperFound \in {"FSTR", "STD", "SM4T"}
  /\ lock = FALSE
  /\ lockBy = 0
  /\ mpc = [t \in Requests |-> "entry"]
  /\ mode \in [Requests -> TopModes]
  /\ mTop = mode
  /\ mLog = [t \in Requests |-> <<>>]
  /\ mIsMusic \in [Requests -> BOOLEAN]
  /\ mLng \in [Requests -> Languages]
  /\ mPath = [t \in Requests |-> <<"in">>]
  /\ mPathIn = [t \in Requests |-> <<"in">>]
  /\ aLast = [t \in Requests |-> NoneText]
  /\ text = [t \in Requests |-> EmptyText]
  /\ weird = [t \in Requests |-> 0]
  /\ mExc = [t \in Requests |-> "none"]
  /\ backendRaised = [t \in Requests |-> FALSE]
  /\ calls = [t \in Requests |-> 0]
  /\ files = [t \in Requests |-> {}]

Init == MarkInit /\ GladiaIdle /\ OptsIdle /\ UtilIdle

Next == \E t \in Requests : MarkStep(t)

Spec == Init /\ [][Next]_vars

\* C1: at most one request executes the backend inference section (between
\* lock.acquire and lock.release) at any time.
InSection(t) == mpc[t] \in {"infer", "handler"}
C1_MutualExclusion ==
  \A t, u \in Requests : (InSection(t) /\ InSection(u)) => t = u

\* C2: a backend exception never makes transcribeMARK raise to its caller.
C2_BackendErrorAbsorbed ==
  \A t \in Requests : backendRaised[t] => mpc[t] # "raised"

\* The modes of the backend calls made so far for request t go forward only.
ForwardModes(t) ==
  /\ Len(mLog[t]) <= 3
  /\ calls[t] = Len(mLog[t])
  /\ \A i \in 1..Len(mLog[t]) - 1 :
       <<mLog[t][i], mLog[t][i + 1]>> \in {<<1, 2>>, <<2, 0>>}
  /\ (mLog[t] # <<>> /\ mpc[t] \in {"entry", "acquire", "infer"}) =>
       <<Last(mLog[t]), mode[t]>> \in {<<1, 2>>, <<2, 0>>}

\* Every request thread that can take a step eventually takes one: the
\* threads are scheduled by the operating system, and a blocked lock.acquire
\* proceeds once the lock stays free.
SpecFair == Spec /\ \A t \in Requests : WF_vars(MarkStep(t))

\* C17: every top-level call ends, after at most three backend calls whose
\* modes go forward only: mode 1 is followed by mode 2 or nothing, mode 2 by
\* mode 0 or nothing, modes 0 and 3 by nothing, and no mode is run twice.
C17_TerminatesForward ==
  /\ [](\A t \in Requests : ForwardModes(t))
  /\ <>(\A t \in Requests : mpc[t] \in {"returned", "raised"})

C17_Witness ==
  \E t \in Requests : mLog[t] = <<1, 2, 0>> /\ mpc[t] = "returned"

\* The step by which request t leaves line 712 with the transcript of mode m.
Decides(t, m) == mpc[t] = "post" /\ mode[t] = m /\ mpc'[t] # "post"
ReturnsText(t, s) ==
  mpc'[t] = "returned" /\ text'[t] = s /\ mLog'[t] = mLog[t] /\ mode'[t] = mode[t]
Recurses(t, m) == mpc'[t] = "entry" /\ mode'[t] = m

\* C18 as stated: in mode 1 a transcript that begins with marker1+OK and ends
\* with OK+marker2 is returned stripped with no second backend call, and any
\* other transcript leads to a mode 2 call.
C18_BracketIff ==
  [][\A t \in Requests :
       Decides(t, 1) =>
         IF Bracketed(text[t], MarkFwdHead, MarkFwdTail)
           THEN ReturnsText(t, StripMarks(text[t], MarkFwdHead, MarkFwdTail))
           ELSE Recurses(t, 2)]_vars

\* C18 amended: in mode 1 a transcript that is not made of marker phrases
\* only and is bracketed by marker1+OK and OK+marker2 is returned stripped
\* with no second backend call; a transcript made of marker phrases only, or
\* not bracketed, leads to a mode 2 call.
C18_BracketUnlessOnlyMarks ==
  [][\A t \in Requests :
       Decides(t, 1) =>
         IF ~OnlyMarks(text[t]) /\ Bracketed(text[t], MarkFwdHead, MarkFwdTail)
           THEN ReturnsText(t, StripMarks(text[t], MarkFwdHead, MarkFwdTail))
           ELSE Recurses(t, 2)]_vars

C18_Witness ==
  \E t \in Requests :
    /\ mpc[t] = "returned"
    /\ mTop[t] = 1
    /\ mLog[t] = <<1>>
    /\ ~backendRaised[t]
    /\ text[t] = <<"x">>

\* C19: in mode 2 the cleaned text is returned when it equals aLast; else the
\* empty text is returned when the transcript is marker phrases only; else the
\* cleaned text is returned when the reversed bracket is there; else a mode 0
\* call follows. The first three make no further backend call.
C19_ModeTwoPriority ==
  [][\A t \in Requests :
       Decides(t, 2) =>
         LET aCleaned == StripMarks(text[t], MarkRevHead, MarkRevTail)
         IN IF aCleaned = aLast[t] THEN ReturnsText(t, aCleaned)
            ELSE IF OnlyMarks(text[t]) THEN ReturnsText(t, EmptyText)
            ELSE IF Bracketed(text[t], MarkRevHead, MarkRevTail)
              THEN ReturnsText(t, aCleaned)
            ELSE Recurses(t, 0)]_vars

C19_Witness ==
  \E t \in Requests :
    /\ mpc[t] = "returned"
    /\ mLog[t] = <<1, 2>>
    /\ ~backendRaised[t]
    /\ text[t] = aLast[t]
    /\ text[t] = <<"x">>

\* C20: a call entered in mode 1 or 2 for a language of ar, he, ru, zh, or for
\* music, or with the SM4T backend, runs in mode 0: no marker file is made,
\* the audio given is the audio transcribed, one backend call at most is made
\* and the call returns after exactly one, with its text as the backend gave it.
Overridden(t) ==
  mLng[t] \in NoMarkLanguages \/ mIsMusic[t] \/ whisperFound = "SM4T"
C20_OverridesForceModeZero ==
  /\ [](\A m \in {1, 2} : \A lng \in Languages \cup NoMarkLanguages :
         \A isMusic \in BOOLEAN : \A found \in {"FSTR", "STD", "SM4T"} :
           (lng \in NoMarkLanguages \/ isMusic \/ found = "SM4T") =>
              /\ EffectiveMode(m, lng, isMusic, found) = 0
              /\ PreparedFiles(<<"in">>, EffectiveMode(m, lng, isMusic, found),
                               isMusic) = {})
  /\ [](\A t \in Requests :
         (mTop[t] \in {1, 2} /\ Overridden(t) /\ mpc[t] # "entry") =>
            /\ mode[t] = 0
            /\ mPathIn[t] = mPath[t]
            /\ files[t] = {}
            /\ mLog[t] \in {<<>>, <<0>>}
            /\ mpc[t] = "returned" => mLog[t] = <<0>>)
  /\ [][\A t \in Requests :
          (mTop[t] \in {1, 2} /\ Overridden(t) /\ mpc[t] = "post" /\ mpc'[t] # "post") =>
             ReturnsText(t, text[t])]_vars

C20_Witness ==
  \E t \in Requests :
    /\ mTop[t] = 1
    /\ mIsMusic[t]
    /\ mLng[t] = "en"
    /\ whisperFound = "FSTR"
    /\ mpc[t] = "returned"
    /\ mLog[t] = <<0>>
    /\ text[t] = <<"W", "O", "x", "O", "W">>

\* C26: while the lock is locked, the request whose acquire locked it is
\* between its lock.acquire and its lock.release: not in the marker
\* preparation, not in the post-processing of the transcript, not entering a
\* recursive call and not waiting for the lock; those steps leave the lock
\* alone.
C26_LockOnlyAroundInference ==
  /\ [](\A t \in Requests :
          (lock /\ lockBy = t) => mpc[t] \in {"infer", "handler", "release"})
  /\ [][\A t \in Requests :
          (mpc[t] \in {"entry", "post"} /\ mpc'[t] # mpc[t]) =>
             (lock' = lock /\ lockBy' = lockBy)]_vars

C26_Witness ==
  \E t, u \in Requests :
    /\ mpc[t] = "post"
    /\ mLog[t] = <<1>>
    /\ lock
    /\ lockBy = u
    /\ mpc[u] = "infer"

\* C27: with every request thread scheduled and every backend call ending,
\* every call ends, having been through the lock, and the lock is left free:
\* no request stays blocked on lock.acquire and no backend exception leaves
\* the lock locked.
C27_LockAlwaysFreed ==
  /\ [](\A t \in Requests :
          mpc[t] \in {"returned", "raised"} =>
             (mLog[t] # <<>> /\ ~(lock /\ lockBy = t)))
  /\ <>[]((\A t \in Requests : mpc[t] \in {"returned", "raised"}) /\ ~lock)

\* A request waits for the lock held by a request whose backend call raised.
C27_Witness ==
  \E t, u \in Requests :
    /\ mpc[t] = "acquire"
    /\ lock
    /\ lockBy = u
    /\ mpc[u] = "handler"

\* ---------------------------------------- SpecGladia: one call of the client
MarkIdle ==
  /\ whisperFound = "FSTR"
  /\ lock = FALSE
  /\ lockBy = 0
  /\ mpc = [t \in Requests |-> "off"]
  /\ mode = [t \in Requests |-> 0]
  /\ mTop = [t \in Requests |-> 0]
  /\ mLog = [t \in Requests |-> <<>>]
  /\ mIsMusic = [t \in Requests |-> FALSE]
  /\ mLng = [t \in Requests |-> "en"]
  /\ mPath = [t \in Requests |-> <<"in">>]
  /\ mPathIn = [t \in Requests |-> <<"in">>]
  /\ aLast = [t \in Requests |-> NoneText]
  /\ text = [t \in Requests |-> EmptyText]
  /\ weird = [t \in Requests |-> 0]
  /\ mExc = [t \in Requests |-> "none"]
  /\ backendRaised = [t \in Requests |-> FALSE]
  /\ calls = [t \in Requests |-> 0]
  /\ files = [t \in Requests |-> {}]

InitGladia ==
  /\ MarkIdle
  /\ OptsIdle
  /\ UtilIdle
  /\ gPc = "start"
  /\ gApiKey \in BOOLEAN
  /\ gLog = <<>>
  /\ gUploadStatus = 0
  /\ gSubmitStatus = 0
  /\ gTotal = 0
  /\ gFibA = 1
  /\ gFibB = 1
  /\ gLastWait = 0
  /\ gBody = NoBody
  /\ gResult = NoResult
  /\ gExc = "none"

NextGladia == GladiaStep

SpecGladia == InitGladia /\ [][NextGladia]_vars

Issued(kind) == \E i \in DOMAIN gLog : gLog[i] = kind
Before(k1, k2) ==
  \A i \in DOMAIN gLog : gLog[i] = k2 => \E j \in 1..(i - 1) : gLog[j] = k1

\* C3: no failure of the upload, submit or poll phase makes transcribe_with_gladia
\* raise: the only exception that may leave it is the missing input file.
C3_GladiaNeverRaises ==
  gPc = "raised" => gExc = "FileNotFoundError"

\* C4: upload, submit and poll run in this order, each only after the previous
\* one succeeded: a submit is issued only after an upload answered 200, a poll
\* only after a submit answered 200 or 201, and an upload answered with another
\* status ends the call with the empty result.
C4_PhasesGated ==
  /\ Before("upload", "submit")
  /\ Before("submit", "poll")
  /\ Issued("submit") => gUploadStatus = 200
  /\ Issued("poll") => gSubmitStatus \in {200, 201}
  /\ (gUploadStatus \notin {0, 200}) =>
       (gPc = "done" /\ gResult = EmptyResult /\ ~Issued("submit") /\ ~Issued("poll"))
  /\ (gSubmitStatus \notin {0, 200, 201}) =>
       (gPc = "done" /\ gResult = EmptyResult /\ ~Issued("poll"))

C4_Witness ==
  /\ gUploadStatus = 400
  /\ gPc = "done"
  /\ gResult = EmptyResult
  /\ gLog = <<"upload">>

\* C5: the time waited between polls never adds up to more than the budget.
C5_WaitWithinBudget == gTotal <= max_wait_time

\* C10: a done response is normalised from its translation section when
\* translation was requested (the payload always requests it) and the section
\* is non-empty, from the transcription section otherwise.
TranslationRequested == TRUE
TranslationNonEmpty(body) ==
  body.translation # <<>> /\ body.translation[1].utterances # <<>>
C10_TranslationPreferred ==
  (gPc = "done" /\ gBody # NoBody) =>
     IF TranslationRequested /\ TranslationNonEmpty(gBody)
       THEN /\ gResult.text = gBody.translation[1].full_transcript
            /\ gResult.json = JsonSegments(gBody.translation[1].utterances)
       ELSE /\ gResult.text = gBody.transcription.full_transcript
            /\ gResult.json = JsonSegments(gBody.transcription.utterances)

\* The scheduler runs the function's next statement, and every request and
\* sleep of the call returns.
SpecGladiaFair == SpecGladia /\ WF_vars(NextGladia)

\* The Fibonacci sequence 1, 1, 2, 3, 5, 8, ... and its partial sums.
RECURSIVE Fib(_)
Fib(n) == IF n <= 2 THEN 1 ELSE Fib(n - 1) + Fib(n - 2)
RECURSIVE SumFib(_)
SumFib(n) == IF n = 0 THEN 0 ELSE SumFib(n - 1) + Fib(n)
\* The first number of waits whose sum reaches the budget.
WaitsToBudget ==
  CHOOSE n \in 1..max_wait_time :
    SumFib(n) >= max_wait_time /\ SumFib(n - 1) < max_wait_time
RECURSIVE CountOf(_, _)
CountOf(log, kind) ==
  IF log = <<>> THEN 0
  ELSE CountOf(Tail(log), kind) + (IF Head(log) = kind THEN 1 ELSE 0)

\* C23: the n-th wait of the poll phase is the n-th Fibonacci number, so no
\* wait is shorter than the one before it; the polls of one call are bounded
\* and the call ends.
C23_FibonacciBackoff ==
  /\ [](LET n == CountOf(gLog, "wait")
        IN /\ gLastWait = (IF n = 0 THEN 0 ELSE Fib(n))
           /\ gTotal = SumFib(n)
           /\ n <= WaitsToBudget
           /\ CountOf(gLog, "poll") <= WaitsToBudget
           /\ \A k \in 1..n - 1 : Fib(k) <= Fib(k + 1))
  /\ [][gLastWait' >= gLastWait]_vars
  /\ <>(gPc \in {"done", "raised"})

C23_Witness ==
  /\ gPc = "done"
  /\ gResult = EmptyResult
  /\ CountOf(gLog, "wait") = WaitsToBudget
  /\ CountOf(gLog, "poll") = WaitsToBudget
  /\ gLastWait = 144

\* C28: the function never returns straight after a wait: every wait is
\* followed by a poll of the result URL before the return.
C28_WaitThenPoll ==
  (gPc \in {"done", "raised"} /\ gLog # <<>>) => Last(gLog) # "wait"

\* C11: a done response is normalised to one segment per utterance, in order
\* (same start and end, the stripped text, one Word per word), with srt the
\* first subtitle block when there is one and the empty string otherwise; a
\* response without a subtitle block is normalised too, it raises nothing.
C11_SegmentsAndSrt ==
  gBody # NoBody =>
     /\ gPc = "done"
     /\ gResult.json = JsonSegments(gBody.transcription.utterances)
     /\ gResult.srt = IF gBody.transcription.subtitles # <<>>
                        THEN gBody.transcription.subtitles[1] ELSE <<>>

\* ------------------------------------------------ SpecOpts: one request
InitOpts ==
  /\ GladiaIdle
  /\ UtilIdle
  /\ whisperFound \in {"FSTR", "SM4T"}
  /\ lock = FALSE
  /\ lockBy = 0
  /\ mpc = [t \in Requests |-> "off"]
  /\ mode = [t \in Requests |-> 0]
  /\ mTop = [t \in Requests |-> 0]
  /\ mLog = [t \in Requests |-> <<>>]
  /\ mIsMusic = [t \in Requests |-> FALSE]
  /\ oLngInput \in {"en", "vi"}
  /\ mLng = [t \in Requests |-> oLngInput]     \* predict: lng = lng_input
  /\ mPath = [t \in Requests |-> NoPath]
  /\ mPathIn = [t \in Requests |-> NoPath]
  /\ aLast = [t \in Requests |-> NoneText]
  /\ text = [t \in Requests |-> EmptyText]
  /\ weird = [t \in Requests |-> 0]
  /\ mExc = [t \in Requests |-> "none"]
  /\ backendRaised = [t \in Requests |-> FALSE]
  /\ calls = [t \in Requests |-> 0]
  /\ files = [t \in Requests |-> {}]
  /\ oPc = "decode"
  /\ oIsMusic \in BOOLEAN
  /\ oAddSRT \in BOOLEAN
  /\ oOnlySRT = FALSE            \* transcribePrompt passes neither onlySRT
  /\ oRemix = "mid"              \* nor remixFactor ("0.3")
  /\ pathIn = NoPath
  /\ pathClean = NoPath
  /\ pathNoCut = NoPath
  /\ pathDemucsVocals = NoPath
  /\ pathREMIXN = NoPath
  /\ duration = Num(-1)
  /\ oProbed = NotYet
  /\ oGuardReached = FALSE
  /\ oCounts = <<>>
  /\ oSel = 0
  /\ oText = EmptyText
  /\ oResult = NoResult
  /\ oExc = "none"

NextOpts == OptsStep \/ MarkStep(Rq)

SpecOpts == InitOpts /\ [][NextOpts]_vars

RequestEnded == oPc \in {"done", "raised", "rejected"}

\* The outcomes GladiaAttempt draws from are those SpecGladia ends with.
GladiaEndsAsSummarised ==
  /\ gPc = "raised" => gExc \in GladiaExceptions
  /\ gPc = "done" => gResult \in [text : Seq({"Hello", " ", "world"}), srt : {<<>>, <<"srt-src">>},
                                   json : {<<>>, <<CreateJsonSegment(SrcUtterance)>>}]

\* C6: a duration probed above the cap makes transcribeOpts return
\* "[Too long (<duration>s)]" and nothing else: no transcribeMARK call, no lock
\* acquisition, no backend or remote call; a duration equal to the cap is not
\* rejected.
C6_TooLongRejected ==
  /\ (oProbed.kind = "number" /\ oProbed.val > MAX_DURATION) =>
        /\ oPc = "done"
        /\ oResult = TooLongResult(oProbed.val)
        /\ ~oGuardReached
        /\ calls[Rq] = 0
        /\ mpc[Rq] = "off"
        /\ ~lock
        /\ gPc = "off"
  /\ oResult.kind = "tooLong" => oResult.duration > MAX_DURATION
  /\ (oProbed = Num(MAX_DURATION) /\ oPc = "done") => oResult.kind = "transcript"

C6_Witness ==
  /\ oPc = "done"
  /\ oProbed = Num(601)
  /\ oResult = TooLongResult(601)

C6_WitnessAtCap ==
  /\ oPc = "done"
  /\ oProbed = Num(MAX_DURATION)
  /\ oResult.kind = "transcript"

\* C7: whatever preprocessing stages fail, when the cap is not exceeded the
\* guard loop is reached: no exception leaves transcribeOpts before it.
C7_PreprocessingNeverAborts ==
  oPc \in {"done", "raised"} => (oResult.kind = "tooLong" \/ oGuardReached)

\* C8: every temporary file of a request is deleted when the request ends.
C8_TempFilesDeleted ==
  RequestEnded => files[Rq] = {}

\* C9: the attempt the cascade ends with has the lowest count of all attempts.
C9_LowestCountSelected ==
  (oPc = "done" /\ oSel # 0) =>
     \A i \in DOMAIN oCounts : oCounts[oSel] <= oCounts[i]

\* A path of the silence-trimmed audio (line 337).
SilenceTrimmed(p) == \E i \in DOMAIN p : p[i] = "SILCUT"

\* The order and the stopping of the cascade, whatever audio the third attempt
\* is given.
CascadeStops ==
  /\ Len(oCounts) <= 5
  /\ oPc = "srt1Ret" => (mPath[Rq] = pathREMIXN /\ Len(oCounts) = 0)
  /\ oPc = "srt2Ret" => (mPath[Rq] = pathNoCut /\ Len(oCounts) = 1)
  /\ oPc = "srt3Ret" => Len(oCounts) = 2
  /\ oPc = "gladia" => Len(oCounts) = 3
  /\ oPc = "srt5Ret" => (mPath[Rq] = pathClean /\ Len(oCounts) = 4)
  /\ \A i \in DOMAIN oCounts :
       oCounts[i] = 0 => (i = Len(oCounts) /\ oPc = "done")
  /\ oCounts = <<5, 3, 3, 0>> => (oPc = "done" /\ oSel = 4)

\* C21: the cascade tries, one after the other, the remixed stems, the uncut
\* audio, the silence-trimmed audio, the remote service and the clean audio;
\* it makes five attempts at most and none after a count of zero; for counts
\* 5, 3, 3, 0 the fourth attempt is selected and there is no fifth.
C21_CascadeOrder ==
  /\ [](CascadeStops /\ (oPc = "srt3Ret" => SilenceTrimmed(mPath[Rq])))
  /\ [][(oPc # "gladia" /\ oPc' = "gladia") => oPc = "srt3Ret"]_vars

\* C22: on the SRT path with music, a first count above the threshold is
\* followed by a second attempt, and a first count within the threshold ends
\* the request with the first transcript.
C22_RetryAboveThreshold ==
  [][(oPc = "srt1Ret" /\ oPc' # "srt1Ret" /\ oPc' # "raised") =>
       IF weird[Rq] > weird_word_count_threshold
         THEN oPc' = "srt2Ret" /\ mPath'[Rq] = pathNoCut
         ELSE oPc' = "done" /\ oSel' = 1 /\ oCounts' = <<weird[Rq]>>]_vars

\* C30: the guard loop is entered in mode 1 only for a duration of 30 s at
\* most; for a longer one it is entered in mode 0, the request makes no marker
\* file and no call in mode 1 or 2.
C30_MarksOnlyForShort ==
  /\ [][(oPc = "modesel" /\ oPc' = "guardRet") =>
          /\ mode'[Rq] = (IF duration.val > MarkDurationLimit THEN 0 ELSE 1)
          /\ mode'[Rq] \in {0, 1}]_vars
  /\ []((oGuardReached /\ duration.kind = "number"
          /\ duration.val > MarkDurationLimit) =>
          /\ \A i \in DOMAIN mLog[Rq] : mLog[Rq][i] \in {0, 3}
          /\ mode[Rq] \in {0, 3}
          /\ \A f \in files[Rq] : \A i \in DOMAIN f : f[i] # "MRK")

C30_Witness ==
  /\ oPc = "guardRet"
  /\ duration = Num(31)
  /\ mTop[Rq] = 0
  /\ mLog[Rq] = <<0>>
  /\ mpc[Rq] = "returned"

\* ------------------------------------------------------------- json_util.py
\* A text is a sequence of words (whitespace between them), a word a sequence
\* of characters. "Hay", "hay" and "HAY" are one denylisted phrase written as
\* in the list, in lower case and in upper case.
weird_words == {"Hay"}
\* str.lower()
Lower(c) == IF c \in {"Hay", "HAY"} THEN "hay" ELSE c

\* c in text
HasChar(txt, c) ==
  \E i \in 1..Len(txt) : \E k \in 1..Len(txt[i]) : txt[i][k] = c
\* word.strip().endswith(c)
EndsWithChar(word, c) == word # <<>> /\ word[Len(word)] = c

\* Lines 103-105: any(word.lower() in text.lower() for word in weird_words).
ContainsExactCase(txt) == \E w \in weird_words : HasChar(txt, w)
contains_weird_words(txt) ==
  \E w \in weird_words :
    \E i \in 1..Len(txt) : \E k \in 1..Len(txt[i]) : Lower(txt[i][k]) = Lower(w)

\* ' '.join(w['text'] for w in current_words).strip()
JoinTexts(ws) == [i \in 1..Len(ws) |-> ws[i].text]

\* Lines 75-80 and 93-98: the segment made of a group of words.
SegStartAtFirstEnd(ws) == ws[1].end
SegStart(ws) == ws[1].start
SegEndOfFirst(ws) == ws[1].end
SegEnd(ws) == ws[Len(ws)].end
NewSentence(ws) ==
  [start |-> SegStart(ws), end |-> SegEnd(ws), sentence |-> JoinTexts(ws),
   words |-> ws]

\* Lines 86-91: a short remaining group is appended to the last sentence.
MergedTextOnly(last, ws) ==
  [start |-> last.start, end |-> SegEnd(ws),
   sentence |-> last.sentence \o JoinTexts(ws), words |-> last.words]
Merged(last, ws) ==
  [start |-> last.start, end |-> SegEnd(ws),
   sentence |-> last.sentence \o JoinTexts(ws), words |-> last.words \o ws]

\* Lines 70-83: the loop over the words; a group is closed at a word that ends
\* with a comma or a period once it holds min_part_words words.
RECURSIVE SplitLoop(_, _, _, _)
SplitLoop(words, i, current_words, new_sentences) ==
  IF i > Len(words) THEN [current_words |-> current_words,
                          new_sentences |-> new_sentences]
  ELSE LET cw == Append(current_words, words[i])
       IN IF /\ (EndsWithChar(words[i].text, ",") \/ EndsWithChar(words[i].text, "."))
             /\ Len(cw) >= min_part_words
            THEN SplitLoop(words, i + 1, <<>>, Append(new_sentences, NewSentence(cw)))
            ELSE SplitLoop(words, i + 1, cw, new_sentences)

\* Lines 64-101. The sentence given is not used for the result (parts, line 65,
\* is never read): the result is built from the words alone.
split_sentence_no_merge(sentence, words) ==
  LET r == SplitLoop(words, 1, <<>>, <<>>)
  IN IF r.current_words = <<>> THEN r.new_sentences
     ELSE Append(r.new_sentences, NewSentence(r.current_words))
split_sentence(sentence, words) ==
  LET r == SplitLoop(words, 1, <<>>, <<>>)
      cw == r.current_words
      ns == r.new_sentences
  IN IF cw = <<>> THEN ns
     ELSE IF ns # <<>> /\ Len(cw) < min_part_words
       THEN [ns EXCEPT ![Len(ns)] = Merged(ns[Len(ns)], cw)]
       ELSE Append(ns, NewSentence(cw))

\* Lines 110-119: what one item of input_json puts in output_json.
ProcessItem(item) ==
  LET it == IF contains_weird_words(item.sentence)
              THEN [item EXCEPT !.sentence = <<>>, !.words = <<>>]
              ELSE item
  IN IF HasChar(it.sentence, ",") \/ HasChar(it.sentence, ".")
       THEN split_sentence(it.sentence, it.words)
       ELSE <<it>>

RECURSIVE Flatten(_)
Flatten(parts) ==
  IF parts = <<>> THEN <<>> ELSE Head(parts) \o Flatten(Tail(parts))

\* Lines 107-121.
process_json(input_json) ==
  Flatten([i \in 1..Len(input_json) |-> ProcessItem(input_json[i])])

\* The segments given to split_transcription: word i of a segment starts at
\* second i - 1; one word of the segment may be long and overlap the next ones.
\* The sentence of a segment is the text of its words.
WordTexts == {<<"a">>, <<"b", ",">>, <<"c", ".">>}
LongWord == 2 * MaxWords
TimedWords(texts, long) ==
  [i \in 1..Len(texts) |->
     [start |-> i - 1, end |-> IF i = long THEN i - 1 + LongWord ELSE i - 1,
      text |-> texts[i]]]
SegmentOf(ws) ==
  [start |-> ws[1].start, end |-> ws[Len(ws)].end, sentence |-> JoinTexts(ws),
   words |-> ws]
\* No segment when there are no words to make one of.
WordedSegments(texts, long) ==
  IF texts = <<>> THEN <<>> ELSE <<SegmentOf(TimedWords(texts, long))>>
\* Segments of a backend that gives no word timestamps, and segments holding a
\* denylisted phrase.
OtherSegments ==
  { [start |-> 1, end |-> 2, sentence |-> << <<"a">> >>, words |-> <<>>],
    [start |-> 1, end |-> 2, sentence |-> << <<"a">>, <<"b", ",">>, <<"a">> >>,
     words |-> <<>>],
    [start |-> 1, end |-> 2, sentence |-> << <<"Hay">> >>, words |-> <<>>],
    [start |-> 1, end |-> 3, sentence |-> << <<"hay">>, <<"b", ",">> >>,
     words |-> TimedWords(<< <<"hay">>, <<"b", ",">> >>, 0)],
    [start |-> 0, end |-> 3,
     sentence |-> << <<"a">>, <<"HAY", ".">>, <<"b", ",">>, <<"a">> >>,
     words |-> TimedWords(<< <<"a">>, <<"HAY", ".">>, <<"b", ",">>, <<"a">> >>, 0)] }
OtherLists == {<<>>} \cup { <<o>> : o \in OtherSegments }

\* Lines 123-126: split_transcription(input_data).
SplitTranscription ==
  /\ jPc = "ready"
  /\ jParts' = [i \in 1..Len(jIn) |-> ProcessItem(jIn[i])]
  /\ jOut' = process_json(jIn)
  /\ jPc' = "done"
  /\ UNCHANGED <<jIn, markVars, gladiaVars, optsVars, runsVars, mergeVars>>

InitJson ==
  /\ MarkIdle
  /\ GladiaIdle
  /\ OptsIdle
  /\ RunsIdle
  /\ MergeIdle
  /\ jPc = "ready"
  /\ \E n \in 0..MaxWords : \E texts \in [1..n -> WordTexts] : \E long \in 0..n :
       \E others \in OtherLists : \E wordedFirst \in BOOLEAN :
         jIn = IF wordedFirst THEN WordedSegments(texts, long) \o others
                              ELSE others \o WordedSegments(texts, long)
  /\ jParts = <<>>
  /\ jOut = <<>>

NextJson == SplitTranscription

SpecJson == InitJson /\ [][NextJson]_vars

\* The spellings of the denylisted phrase, whatever the letter case.
Denylisted(txt) ==
  \E i \in 1..Len(txt) : \E k \in 1..Len(txt[i]) :
    txt[i][k] \in {"Hay", "hay", "HAY"}
\* The number of output segments the input segments before i produced.
RECURSIVE OutputsBefore(_, _)
OutputsBefore(parts, i) ==
  IF i <= 1 THEN 0 ELSE OutputsBefore(parts, i - 1) + Len(parts[i - 1])
Emptied(seg) ==
  [start |-> seg.start, end |-> seg.end, sentence |-> <<>>, words |-> <<>>]

\* C12: an input segment whose sentence holds a denylisted phrase, in any
\* letter case, gives exactly one output segment, in its place in the order,
\* with its start and end and with an empty sentence and no words.
C12_SpamEmptiedInPlace ==
  jPc = "done" =>
    \A i \in 1..Len(jIn) :
      Denylisted(jIn[i].sentence) =>
        /\ jParts[i] = <<Emptied(jIn[i])>>
        /\ jOut[OutputsBefore(jParts, i) + 1] = Emptied(jIn[i])
        /\ Len(jOut) = OutputsBefore(jParts, Len(jIn) + 1)

C12_Witness ==
  /\ jPc = "done"
  /\ Len(jIn) = 2
  /\ Len(jParts[1]) = 2
  /\ jIn[2].sentence = << <<"a">>, <<"HAY", ".">>, <<"b", ",">>, <<"a">> >>
  /\ jOut[3] = Emptied(jIn[2])

RECURSIVE ConcatSentences(_)
ConcatSentences(segs) ==
  IF segs = <<>> THEN <<>> ELSE Head(segs).sentence \o ConcatSentences(Tail(segs))

\* C13: without denylisted phrases, the sentences of the output read in order
\* are the sentences of the input read in order, whitespace aside, also for a
\* segment with a comma or a period in its sentence and no words.
C13_TextPreserved ==
  (jPc = "done" /\ \A i \in 1..Len(jIn) : ~Denylisted(jIn[i].sentence)) =>
     ConcatSentences(jOut) = ConcatSentences(jIn)

ValidWords(ws) ==
  /\ \A i \in 1..Len(ws) : ws[i].start <= ws[i].end
  /\ \A i \in 1..Len(ws) - 1 : ws[i].start <= ws[i + 1].start
ValidSegment(seg) == seg.start <= seg.end /\ ValidWords(seg.words)

\* C14: when every input segment has end >= start and time-ordered words with
\* start <= end, every output segment has end >= start.
C14_EndNotBeforeStart ==
  (jPc = "done" /\ \A i \in 1..Len(jIn) : ValidSegment(jIn[i])) =>
     \A k \in 1..Len(jOut) : jOut[k].end >= jOut[k].start

\* A segment split at its third word, the two words left merged into it, the
\* first word overlapping all the others.
C14_Witness ==
  /\ jPc = "done"
  /\ Len(jIn) = 1
  /\ Len(jIn[1].words) = 5
  /\ jIn[1].words[1].end > jIn[1].words[5].end
  /\ EndsWithChar(jIn[1].words[3].text, ",")
  /\ Len(jOut) = 1
  /\ Len(jOut[1].words) = 5
  /\ ValidSegment(jIn[1])

\* The input segments split_sentence is called for (lines 111-117).
WasSplit(item) ==
  /\ ~contains_weird_words(item.sentence)
  /\ HasChar(item.sentence, ",") \/ HasChar(item.sentence, ".")
Closes(word) == EndsWithChar(word.text, ",") \/ EndsWithChar(word.text, ".")
\* The first word of ws, from the third on, that ends with a comma or a
\* period; 0 when there is none.
FirstClose(ws) ==
  IF \E k \in min_part_words..Len(ws) : Closes(ws[k])
    THEN CHOOSE k \in min_part_words..Len(ws) :
           Closes(ws[k]) /\ \A j \in min_part_words..(k - 1) : ~Closes(ws[j])
    ELSE 0

C25_GroupsOfThree ==
  jPc = "done" =>
    \A i \in 1..Len(jIn) :
      WasSplit(jIn[i]) =>
        \A k \in 1..Len(jParts[i]) :
          LET seg == jParts[i][k]
              n == Len(seg.words)
              c == FirstClose(seg.words)
          IN /\ Len(jParts[i]) > 1 => n >= min_part_words
             /\ k < Len(jParts[i]) => c = n
             /\ k = Len(jParts[i]) =>
                  \/ c \in {0, n}
                  \/ n - c < min_part_words
             /\ n > 0 => (seg.end = seg.words[n].end /\ seg.sentence = JoinTexts(seg.words))

\* A segment of five words closed at its third word, the two left merged.
C25_Witness ==
  /\ jPc = "done"
  /\ \E i \in 1..Len(jIn) :
       /\ WasSplit(jIn[i])
       /\ Len(jIn[i].words) = 5
       /\ Len(jParts[i]) = 1
       /\ FirstClose(jIn[i].words) = 3
       /\ jParts[i][1].end = jIn[i].words[5].end

RECURSIVE ConcatWords(_)
ConcatWords(segs) ==
  IF segs = <<>> THEN <<>> ELSE Head(segs).words \o ConcatWords(Tail(segs))

\* C29: the words of the segments made from a split segment, read in order,
\* are the words of that segment, and each segment made starts with its first
\* word and ends with its last.
C29_WordsPartitioned ==
  jPc = "done" =>
    \A i \in 1..Len(jIn) :
      WasSplit(jIn[i]) =>
        /\ ConcatWords(jParts[i]) = jIn[i].words
        /\ \A k \in 1..Len(jParts[i]) :
             LET seg == jParts[i][k]
             IN /\ seg.words # <<>>
                /\ seg.start = seg.words[1].start
                /\ seg.end = seg.words[Len(seg.words)].end

\* A segment of six words made into two of three, the long word in the second.
C29_Witness ==
  /\ jPc = "done"
  /\ \E i \in 1..Len(jIn) :
       /\ WasSplit(jIn[i])
       /\ Len(jIn[i].words) = 6
       /\ Len(jParts[i]) = 2
       /\ Len(jParts[i][1].words) = 3
       /\ jParts[i][2].end > jParts[i][2].words[1].end

\* ------------------------------------- transcribeMARK: the runs of one call
\* Lines 603-658 (faster-whisper) and 670-700 (whisper): the same loop.
RunTexts == {<<>>, <<"x">>, <<"y">>, <<"x", "y">>}
RunSeparator == <<"=====">>

\* Lines 606-655: one run. The text of the run is added to result["text"],
\* and result["text"] is added to multiRes, after the separator from the
\* second run on.
RunIteration ==
  /\ rPc = "loop"
  /\ rRun < nbRun
  /\ \E t \in RunTexts :
       /\ rTexts' = Append(rTexts, t)
       /\ rText' = rText \o t
       /\ multiRes' = (IF rRun > 0 THEN multiRes \o RunSeparator ELSE multiRes)
                        \o (rText \o t)
  /\ rRun' = rRun + 1
  /\ UNCHANGED <<rPc, nbRun>>
  /\ UNCHANGED <<markVars, gladiaVars, optsVars, jsonVars, mergeVars>>

\* Lines 657-658: after the last run.
RunsEnd ==
  /\ rPc = "loop"
  /\ rRun = nbRun
  /\ rText' = IF nbRun > 1 THEN multiRes ELSE rText
  /\ rPc' = "done"
  /\ UNCHANGED <<nbRun, rRun, rTexts, multiRes>>
  /\ UNCHANGED <<markVars, gladiaVars, optsVars, jsonVars, mergeVars>>

\* Lines 704-708: a run raised, the result is the empty one.
RunRaises ==
  /\ rPc = "loop"
  /\ rRun < nbRun
  /\ rText' = <<>>
  /\ rPc' = "failed"
  /\ UNCHANGED <<nbRun, rRun, rTexts, multiRes>>
  /\ UNCHANGED <<markVars, gladiaVars, optsVars, jsonVars, mergeVars>>

InitRuns ==
  /\ MarkIdle
  /\ GladiaIdle
  /\ OptsIdle
  /\ JsonIdle
  /\ MergeIdle
  /\ rPc = "loop"
  /\ nbRun \in 1..MaxRuns
  /\ rRun = 0
  /\ rTexts = <<>>
  /\ rText = <<>>
  /\ multiRes = <<>>

NextRuns == RunIteration \/ RunsEnd \/ RunRaises

SpecRuns == InitRuns /\ [][NextRuns]_vars

\* t1 ===== t2 ===== ... tn
RECURSIVE JoinRuns(_)
JoinRuns(texts) ==
  IF texts = <<>> THEN <<>>
  ELSE IF Len(texts) = 1 THEN texts[1]
  ELSE texts[1] \o RunSeparator \o JoinRuns(Tail(texts))

\* C15: with nbRun > 1 the text returned is the texts of the runs, each once
\* and in run order, joined by the separator.
C15_RunsJoined ==
  (rPc = "done" /\ nbRun > 1) => rText = JoinRuns(rTexts)

\* ------------------------------ video_audio_merge_server.py: decode_request
\* The request mapping: "video" is absent, an upload whose file is None, or an
\* upload with a file; "audio_url" is absent, empty, or a URL.
MergeRequests ==
  [video : {"absent", "nofile", "file"}, audio_url : {"absent", "empty", "url"}]

NoVideoDetail == "400 No video file found in the request."
NoAudioDetail == "400 No audio URL provided in the request."
ProcessingDetail == "400 Error processing files"

MergeEnds(t, exc, created) ==
  /\ vPc' = [vPc EXCEPT ![t] = IF exc = "none" THEN "returned" ELSE "raised"]
  /\ vExc' = [vExc EXCEPT ![t] = exc]
  /\ vFiles' = [vFiles EXCEPT ![t] = created]

\* Lines 13-39. request["video"] and request["audio_url"] are subscripts: an
\* absent key raises KeyError before the test that follows it.
MergeDecodeRequest(t) ==
  /\ vPc[t] = "decode"
  /\ IF vRequest[t].video = "absent" THEN MergeEnds(t, "KeyError", {})
     ELSE IF vRequest[t].video = "nofile" THEN MergeEnds(t, NoVideoDetail, {})
     ELSE IF vRequest[t].audio_url = "absent" THEN MergeEnds(t, "KeyError", {})
     ELSE IF vRequest[t].audio_url = "empty" THEN MergeEnds(t, NoAudioDetail, {})
     ELSE \/ MergeEnds(t, "none", {"video.mp4", "audio.mp3"})
          \/ MergeEnds(t, ProcessingDetail, {"video.mp4", "audio.mp3"})
  /\ UNCHANGED vRequest
  /\ UNCHANGED <<markVars, gladiaVars, optsVars, jsonVars, runsVars>>

InitMerge ==
  /\ MarkIdle
  /\ GladiaIdle
  /\ OptsIdle
  /\ JsonIdle
  /\ RunsIdle
  /\ vPc = [t \in Requests |-> "decode"]
  /\ vRequest \in [Requests -> MergeRequests]
  /\ vFiles = [t \in Requests |-> {}]
  /\ vExc = [t \in Requests |-> "none"]

NextMerge == \E t \in Requests : MergeDecodeRequest(t)

SpecMerge == InitMerge /\ [][NextMerge]_vars

\* C16: a request without a video field, and one without an audio_url field,
\* is rejected with HTTPException 400 and the detail of the missing field, and
\* no temporary file is created.
C16_MissingFieldRejected ==
  \A t \in Requests :
    vPc[t] # "decode" =>
      /\ vRequest[t].video = "absent" =>
           (vExc[t] = NoVideoDetail /\ vFiles[t] = {})
      /\ (vRequest[t].video = "file" /\ vRequest[t].audio_url = "absent") =>
           (vExc[t] = NoAudioDetail /\ vFiles[t] = {})

====
